---- MODULE Spec2Model ----
(***************************************************************************)
(* Model of redmail.email.sender.EmailSender (src/redmail/email/sender.py) *)
(* and of the DistrSender subclass of src/redmail/test/email/               *)
(* test_cookbook.py.                                                        *)
(*                                                                         *)
(* A call of get_message / send is a little program over its local         *)
(* variables: one step per source line that touches the sender object or   *)
(* a collaborator (template environments, TextBody, HTMLBody, Attachments, *)
(* the SMTP class).  Step is the transition function of that program; Run  *)
(* iterates it to the end of the call.  The sequential specification uses  *)
(* whole calls (Run); the concurrent specifications interleave the steps   *)
(* of several threads.                                                     *)
(***************************************************************************)
EXTENDS Integers, Sequences, FiniteSets, TLC

VARIABLES
    cls,        \* class of the sender object: "EmailSender" or "DistrSender"
    email,      \* the sender object's attributes (attribute name -> value)
    assigned,   \* number of attribute assignments made after construction
    ret,        \* final local state of the last whole call (sequential use)
    th,         \* thread -> local state of its call (concurrent use)
    writes,     \* number of attribute writes made while a call was running
    start,      \* the sender's attributes when the threads' calls started
    table,      \* the table given to a table template
    spans       \* its group spans, once computed

vars == <<cls, email, assigned, ret, th, writes, start, table, spans>>

(***************************************************************************)
(* Bounds of the model.                                                    *)
(***************************************************************************)
MaxAssign == 1      \* attribute assignments on the sender after construction
MaxArgs == 2        \* keyword arguments given to one call
MaxWrites == 1      \* attribute writes racing with a running call
MaxRows == 3        \* rows of a table

(***************************************************************************)
(* Python values.  A value is a type tag and its items: None has no item,  *)
(* a str has one (its text), a list has its elements.                      *)
(***************************************************************************)
None == [t |-> "NoneType", v |-> <<>>]
Str(s) == [t |-> "str", v |-> <<s>>]
List(q) == [t |-> "list", v |-> q]
Bool(b) == [t |-> "bool", v |-> <<IF b THEN "True" ELSE "False">>]

\* bool(x): None, "", [] and False are falsy.
Truthy(x) ==
    CASE x.t = "NoneType" -> FALSE
      [] x.t = "str" -> x.v[1] # ""
      [] x.t = "list" -> x.v # <<>>
      [] x.t = "bool" -> x.v[1] = "True"
      [] OTHER -> TRUE

\* Python's "a or b": a when a is truthy, else b.
Or(a, b) == IF Truthy(a) THEN a ELSE b

\* An optional dict argument: none is TRUE for None, else d is the mapping.
EmptyDict == [k \in {} |-> None]
NoDict == [none |-> TRUE, d |-> EmptyDict]
Dict(f) == [none |-> FALSE, d |-> f]
TruthyDict(x) == ~x.none /\ DOMAIN x.d # {}

\* dict.update: the keys of e are added to, or replace, those of d.
Update(d, e) == [k \in DOMAIN d \cup DOMAIN e |-> IF k \in DOMAIN e THEN e[k] ELSE d[k]]

EmailAddress(x) == [t |-> "EmailAddress", v |-> <<x.t>> \o x.v]
Error(content_type) == [t |-> "Error", v |-> <<content_type>>]

(***************************************************************************)
(* The sender object.                                                      *)
(***************************************************************************)
StrDefaults == {"sender", "subject", "text", "html", "html_template", "text_template"}
ListDefaults == {"receivers", "cc", "bcc"}
Defaults == StrDefaults \cup ListDefaults
Themes == {"default_html_theme", "default_text_theme"}
Environments == {"templates_html", "templates_html_table", "templates_text", "templates_text_table"}
Credentials == {"user_name", "password"}
Attributes == Defaults \cup Themes \cup Environments \cup Credentials \cup {"use_starttls"}

\* The class attributes (lines 112-119: themes and the packaged template
\* directories) and the instance attributes __init__ sets.
EmailSenderInit(user_name, password, use_starttls) ==
    [n \in Attributes |->
        CASE n = "default_html_theme" -> Str("modest.html")
          [] n = "default_text_theme" -> Str("pandas.txt")
          [] n = "templates_html" -> Str("templates/html")
          [] n = "templates_html_table" -> Str("templates/html/table")
          [] n = "templates_text" -> Str("templates/text")
          [] n = "templates_text_table" -> Str("templates/text/table")
          [] n = "user_name" -> user_name
          [] n = "password" -> password
          [] n = "use_starttls" -> use_starttls
          [] OTHER -> None]

\* DistrSender.distributions of test_distributions.
distributions ==
    [g \in {"group1", "group2"} |->
        IF g = "group1" THEN List(<<"me@example.com", "you@example.com">>)
        ELSE List(<<"he@example.com", "she@example.com">>)]


(***************************************************************************)
(* The hooks a subclass may override.                                      *)
(***************************************************************************)
EmailSender_get_receivers(self, receivers) == Or(receivers, self["receivers"])

EmailSender_get_cc(self, cc) == Or(cc, self["cc"])

EmailSender_get_bcc(self, bcc) == Or(bcc, self["bcc"])

\* The three hooks of DistrSender have the same body: a truthy argument is
\* looked up in the distributions, and anything else falls off the end of
\* the function (None).
DistrSender_get_receivers(self, receiver_list) ==
    IF Truthy(receiver_list) THEN distributions[receiver_list.v[1]] ELSE None

DistrSender_get_cc(self, receiver_list) ==
    IF Truthy(receiver_list) THEN distributions[receiver_list.v[1]] ELSE None

DistrSender_get_bcc(self, receiver_list) ==
    IF Truthy(receiver_list) THEN distributions[receiver_list.v[1]] ELSE None

get_receivers(c, self, receivers) ==
    IF c = "DistrSender" THEN DistrSender_get_receivers(self, receivers)
    ELSE EmailSender_get_receivers(self, receivers)

get_cc(c, self, cc) ==
    IF c = "DistrSender" THEN DistrSender_get_cc(self, cc)
    ELSE EmailSender_get_cc(self, cc)

get_bcc(c, self, bcc) ==
    IF c = "DistrSender" THEN DistrSender_get_bcc(self, bcc)
    ELSE EmailSender_get_bcc(self, bcc)

get_sender(self, sender) == Or(Or(sender, self["sender"]), self["user_name"])

(***************************************************************************)
(* Messages.  A message is its headers, in the order they were set, and    *)
(* the parts attached to it, in the order they were attached.  A header    *)
(* value is kept as the items the header registry makes of it: the text    *)
(* of a str, the elements of a list, and "None" for None.                  *)
(***************************************************************************)
NoMsg == [headers |-> <<>>, parts |-> <<>>]

\* None is kept as the text "None" by the address headers and as the empty
\* text by subject.
HeaderItems(name, x) ==
    IF x.t = "NoneType" THEN (IF name = "subject" THEN <<"">> ELSE <<"None">>)
    ELSE x.v

SetHeader(msg, name, x) ==
    [msg EXCEPT !.headers = Append(@, <<name, HeaderItems(name, x)>>)]

\* Mutant of _create_body: "is not None" where the code tests truth.
_create_body_is_not_None(subject, sender, receivers, cc, bcc) ==
    LET m1 == SetHeader(NoMsg, "from", sender)
        m2 == SetHeader(m1, "subject", subject)
        m3 == IF receivers # None THEN SetHeader(m2, "to", receivers) ELSE m2
        m4 == IF cc # None THEN SetHeader(m3, "cc", cc) ELSE m3
        m5 == IF bcc # None THEN SetHeader(m4, "bcc", bcc) ELSE m4
    IN m5

_create_body(subject, sender, receivers, cc, bcc) ==
    LET m1 == SetHeader(NoMsg, "from", sender)
        m2 == SetHeader(m1, "subject", subject)
        m3 == IF Truthy(receivers) THEN SetHeader(m2, "to", receivers) ELSE m2
        m4 == IF Truthy(cc) THEN SetHeader(m3, "cc", cc) ELSE m3
        m5 == IF Truthy(bcc) THEN SetHeader(m4, "bcc", bcc) ELSE m4
    IN m5

(***************************************************************************)
(* Jinja parameters.                                                       *)
(***************************************************************************)
get_params(sender) ==
    [k \in {"node", "user", "now", "sender"} |->
        CASE k = "node" -> Str("node()")
          [] k = "user" -> Str("getuser()")
          [] k = "now" -> Str("datetime.now()")
          [] OTHER -> EmailAddress(sender)]

\* Mutant of get_html_params: the text marker, copied from get_text_params.
get_html_params_text_marker(extra, sender) ==
    LET params == Update(get_params(sender), [k \in {"error"} |-> Error("text")])
    IN IF TruthyDict(extra) THEN Update(params, extra.d) ELSE params

get_html_params(extra, sender) ==
    LET params == Update(get_params(sender), [k \in {"error"} |-> Error("html-inline")])
    IN IF TruthyDict(extra) THEN Update(params, extra.d) ELSE params

get_text_params(extra, sender) ==
    LET params == Update(get_params(sender), [k \in {"error"} |-> Error("text")])
    IN IF TruthyDict(extra) THEN Update(params, extra.d) ELSE params

(***************************************************************************)
(* Templates.  A loaded template is the pair of the environment it came    *)
(* from and its name; <<>> stands for "no template" (None).                *)
(***************************************************************************)
NoTemplate == <<>>
get_template(env, layout) == <<env.v[1], layout.v[1]>>


(***************************************************************************)
(* The local state of one call: op is the method called; a, body_params    *)
(* and attachments are the arguments as given; v holds the local           *)
(* variables of get_message (the parameters, rebound as the code resolves  *)
(* them); fault and smtp_fault name the collaborator call that raises in   *)
(* this call, if any; calls logs the collaborator calls made, in order.    *)
(***************************************************************************)
NoArgs == [n \in Defaults |-> None]

\* send_message is connect, then the server's send_message, then its quit;
\* send is get_message, then send_message.
send_message_body == <<"connect", "server.send_message", "server.quit">>

\* Mutant of send_body: the connection is opened before the message is composed.
send_connect_first == <<"connect", "get_message", "server.send_message", "server.quit">>

send_body == <<"get_message">> \o send_message_body

Program(op) == IF op = "send" THEN send_body ELSE <<"get_message">>

\* The first line of each part of a program.
Entry(part) ==
    CASE part = "get_message" -> "L287"
      [] part = "connect" -> "L379"
      [] part = "server.send_message" -> "L373"
      [] OTHER -> "L375"

Call(op, a, body_params, attachments, fault, smtp_fault) ==
    [op |-> op, phase |-> 1, pc |-> Entry(Program(op)[1]), a |-> a,
     body_params |-> body_params,
     attachments |-> attachments, fault |-> fault, smtp_fault |-> smtp_fault,
     v |-> a, template |-> NoTemplate, table_template |-> NoTemplate,
     given |-> [body_params |-> body_params, attachments |-> attachments],
     msg |-> NoMsg, exc |-> "", calls |-> <<>>,
     user |-> None, password |-> None, delivered |-> NoMsg]

Idle == [Call("", NoArgs, NoDict, NoDict, "", "") EXCEPT !.pc = "idle"]

Goto(loc, pc) == [loc EXCEPT !.pc = pc]
Raise(loc, exc) == [loc EXCEPT !.pc = "raise", !.exc = exc]
Log(loc, name) == [loc EXCEPT !.calls = Append(@, name)]
Same(self, loc) == [self |-> self, loc |-> loc]

\* A part of the program returns: on to the next part, or the call is over.
Finish(loc) ==
    IF loc.phase < Len(Program(loc.op))
    THEN [loc EXCEPT !.phase = loc.phase + 1, !.pc = Entry(Program(loc.op)[loc.phase + 1])]
    ELSE Goto(loc, "done")

\* A collaborator call: logged, and it raises exc when it is the call the
\* fault names, else the call continues as ok.
Invoke(loc, name, exc, ok) ==
    IF loc.fault = name THEN Raise(Log(loc, name), exc) ELSE ok

(***************************************************************************)
(* get_message, line by line.  Each operator maps the sender object and    *)
(* the local state before the line to those after it.                      *)
(***************************************************************************)
\* Mutant of L287: the resolved subject is kept on the sender.
L287_stores_subject(self, loc) ==
    [self |-> [self EXCEPT !["subject"] = Or(loc.v["subject"], self["subject"])],
     loc |-> [loc EXCEPT !.v["subject"] = Or(@, self["subject"]), !.pc = "L288"]]

L287(self, loc) ==
    Same(self, [loc EXCEPT !.v["subject"] = Or(@, self["subject"]), !.pc = "L288"])

L288(self, loc) ==
    Same(self, [loc EXCEPT !.v["sender"] = get_sender(self, @), !.pc = "L290"])

L290(c, self, loc) ==
    Same(self, [loc EXCEPT !.v["receivers"] = get_receivers(c, self, @), !.pc = "L291"])

L291(c, self, loc) ==
    Same(self, [loc EXCEPT !.v["cc"] = get_cc(c, self, @), !.pc = "L292"])

L292(c, self, loc) ==
    Same(self, [loc EXCEPT !.v["bcc"] = get_bcc(c, self, @), !.pc = "L294"])

L294(self, loc) ==
    Same(self, [loc EXCEPT !.v["html"] = Or(@, self["html"]), !.pc = "L295"])

\* Mutant of L295: the default text wins over the argument.
L295_default_first(self, loc) ==
    Same(self, [loc EXCEPT !.v["text"] = Or(self["text"], @), !.pc = "L296"])

L295(self, loc) ==
    Same(self, [loc EXCEPT !.v["text"] = Or(@, self["text"]), !.pc = "L296"])

L296(self, loc) ==
    Same(self, [loc EXCEPT !.v["html_template"] = Or(@, self["html_template"]), !.pc = "L297"])

L297(self, loc) ==
    Same(self, [loc EXCEPT !.v["text_template"] = Or(@, self["text_template"]), !.pc = "L299"])

\* Mutant of L299: the subject is not checked.
L299_no_check(self, loc) == Same(self, Goto(loc, "L302"))

L299(self, loc) ==
    Same(self, IF loc.v["subject"] = None THEN Raise(loc, "ValueError") ELSE Goto(loc, "L302"))

\* Line 310: is there a text body?  Line 322: is there an HTML body?
\* Mutant of HasText: a text template alone makes no text body.
HasText_no_template(loc) == loc.v["text"] # None
HasText(loc) == loc.v["text"] # None \/ loc.v["text_template"] # None
HasHtml(loc) == loc.v["html"] # None \/ loc.v["html_template"] # None
L322(loc) == IF HasHtml(loc) THEN "L324" ELSE "L334"
L310(loc) == IF HasText(loc) THEN "L312" ELSE L322(loc)

L302(self, loc) ==
    LET msg == _create_body(loc.v["subject"], loc.v["sender"], loc.v["receivers"],
                            loc.v["cc"], loc.v["bcc"])
        l1 == Log([loc EXCEPT !.msg = msg], "_create_body")
    IN Same(self, Goto(l1, L310(l1)))

\* get_text_template / get_html_template: no lookup for layout None.
get_text_template(self, loc, layout) ==
    IF layout = None THEN [loc EXCEPT !.template = NoTemplate]
    ELSE Invoke(loc, "get_text_template", "TemplateNotFound",
                [Log(loc, "get_text_template") EXCEPT
                    !.template = get_template(self["templates_text"], layout)])

get_html_template(self, loc, layout) ==
    IF layout = None THEN [loc EXCEPT !.template = NoTemplate]
    ELSE Invoke(loc, "get_html_template", "TemplateNotFound",
                [Log(loc, "get_html_template") EXCEPT
                    !.template = get_template(self["templates_html"], layout)])

\* get_text_table_template / get_html_table_template, called with no layout:
\* the layout is the default theme, and no lookup is made when that is None.
get_text_table_template(self, loc) ==
    LET layout == self["default_text_theme"]
    IN IF layout = None THEN [loc EXCEPT !.table_template = NoTemplate]
       ELSE Invoke(loc, "get_text_table_template", "TemplateNotFound",
                   [Log(loc, "get_text_table_template") EXCEPT
                       !.table_template = get_template(self["templates_text_table"], layout)])

get_html_table_template(self, loc) ==
    LET layout == self["default_html_theme"]
    IN IF layout = None THEN [loc EXCEPT !.table_template = NoTemplate]
       ELSE Invoke(loc, "get_html_table_template", "TemplateNotFound",
                   [Log(loc, "get_html_table_template") EXCEPT
                       !.table_template = get_template(self["templates_html_table"], layout)])

\* After a collaborator call: on to pc unless the call raised.
Then(loc, pc) == IF loc.pc = "raise" THEN loc ELSE Goto(loc, pc)

L312(self, loc) ==
    Same(self, Then(get_text_template(self, loc, loc.v["text_template"]), "L313"))

L313(self, loc) == Same(self, Then(get_text_table_template(self, loc), "L315"))

Part(kind, loc, body, params, files) ==
    [kind |-> kind, template |-> loc.template, table_template |-> loc.table_template,
     body |-> body, params |-> params, files |-> files]

Attach(loc, part) == [loc EXCEPT !.msg.parts = Append(@, part)]

L315(self, loc) ==
    LET jinja_params == get_text_params(loc.body_params, loc.v["sender"])
        part == Part("text", loc, loc.v["text"], jinja_params, {})
        done == Attach(Log(loc, "TextBody.attach"), part)
    IN Same(self, Then(Invoke(loc, "TextBody.attach", "RenderError", done), L322(loc)))

L324(self, loc) ==
    Same(self, Then(get_html_template(self, loc, loc.v["html_template"]), "L325"))

L325(self, loc) == Same(self, Then(get_html_table_template(self, loc), "L327"))

L327(self, loc) ==
    LET jinja_params == get_html_params(loc.body_params, loc.v["sender"])
        part == Part("html", loc, loc.v["html"], jinja_params, {})
        done == Attach(Log(loc, "HTMLBody.attach"), part)
    IN Same(self, Then(Invoke(loc, "HTMLBody.attach", "RenderError", done), "L334"))

L334(self, loc) ==
    IF TruthyDict(loc.attachments)
    THEN LET l0 == [loc EXCEPT !.template = NoTemplate, !.table_template = NoTemplate]
             part == Part("attachments", l0, None, EmptyDict, DOMAIN loc.attachments.d)
             done == Attach(Log(loc, "Attachments.attach"), part)
         IN Same(self, Then(Invoke(loc, "Attachments.attach", "AttachmentError", done), "L337"))
    ELSE Same(self, Goto(loc, "L337"))

\* return msg
L337(self, loc) == Same(self, Finish(loc))


(***************************************************************************)
(* send_message and connect, line by line.  The transport is the SMTP      *)
(* class given to the constructor: each of its operations is logged, and   *)
(* the one smtp_fault names raises.                                        *)
(***************************************************************************)
Transport(loc, name) ==
    IF loc.smtp_fault = name THEN Raise(Log(loc, name), "SMTPException")
    ELSE Log(loc, name)

L379(self, loc) == Same(self, [loc EXCEPT !.user = self["user_name"], !.pc = "L380"])

L380(self, loc) == Same(self, [loc EXCEPT !.password = self["password"], !.pc = "L382"])

L382(self, loc) == Same(self, Then(Transport(loc, "SMTP"), "L383"))

\* Mutant of L386: login only when both user name and password are given.
L386_and(loc) == IF loc.user # None /\ loc.password # None THEN "L387" ELSE "L388"

L386(loc) == IF loc.user # None \/ loc.password # None THEN "L387" ELSE "L388"

L383(self, loc) ==
    Same(self, Goto(loc, IF Truthy(self["use_starttls"]) THEN "L384" ELSE L386(loc)))

L384(self, loc) == Same(self, Then(Transport(loc, "starttls"), L386(loc)))

L387(self, loc) == Same(self, Then(Transport(loc, "login"), "L388"))

\* return server
L388(self, loc) == Same(self, Finish(loc))

ThenFinish(loc) == IF loc.pc = "raise" THEN loc ELSE Finish(loc)

L373(self, loc) ==
    Same(self, ThenFinish(Transport([loc EXCEPT !.delivered = loc.msg], "send_message")))

L375(self, loc) == Same(self, ThenFinish(Transport(loc, "quit")))

(***************************************************************************)
(* One step of a call, and a whole call.                                   *)
(***************************************************************************)
Over(loc) == loc.pc \in {"done", "raise", "idle"}

Step(c, self, loc) ==
    CASE loc.pc = "L287" -> L287(self, loc)
      [] loc.pc = "L288" -> L288(self, loc)
      [] loc.pc = "L290" -> L290(c, self, loc)
      [] loc.pc = "L291" -> L291(c, self, loc)
      [] loc.pc = "L292" -> L292(c, self, loc)
      [] loc.pc = "L294" -> L294(self, loc)
      [] loc.pc = "L295" -> L295(self, loc)
      [] loc.pc = "L296" -> L296(self, loc)
      [] loc.pc = "L297" -> L297(self, loc)
      [] loc.pc = "L299" -> L299(self, loc)
      [] loc.pc = "L302" -> L302(self, loc)
      [] loc.pc = "L312" -> L312(self, loc)
      [] loc.pc = "L313" -> L313(self, loc)
      [] loc.pc = "L315" -> L315(self, loc)
      [] loc.pc = "L324" -> L324(self, loc)
      [] loc.pc = "L325" -> L325(self, loc)
      [] loc.pc = "L327" -> L327(self, loc)
      [] loc.pc = "L334" -> L334(self, loc)
      [] loc.pc = "L337" -> L337(self, loc)
      [] loc.pc = "L379" -> L379(self, loc)
      [] loc.pc = "L380" -> L380(self, loc)
      [] loc.pc = "L382" -> L382(self, loc)
      [] loc.pc = "L383" -> L383(self, loc)
      [] loc.pc = "L384" -> L384(self, loc)
      [] loc.pc = "L387" -> L387(self, loc)
      [] loc.pc = "L388" -> L388(self, loc)
      [] loc.pc = "L373" -> L373(self, loc)
      [] loc.pc = "L375" -> L375(self, loc)
      [] OTHER -> Same(self, loc)

RECURSIVE Run(_, _, _)
Run(c, self, loc) ==
    IF Over(loc) THEN Same(self, loc)
    ELSE LET r == Step(c, self, loc) IN Run(c, r.self, r.loc)

\* The faults a call can be given, and whether the call met its fault: a
\* fault names a collaborator call, which raises only if the call is made.
Faults == {"get_text_template", "get_text_table_template", "TextBody.attach",
           "get_html_template", "get_html_table_template", "HTMLBody.attach",
           "Attachments.attach"}
SmtpFaults == {"SMTP", "starttls", "login", "send_message", "quit"}


(***************************************************************************)
(* Tables and their group spans (GroupSpanCalculator).  A table is its     *)
(* columns in order, the number of leading columns that are grouping       *)
(* columns, and its rows; a row maps each column to a value.  Rows and     *)
(* column ordinals count from 0.                                           *)
(***************************************************************************)
Columns == <<"dept", "team", "name">>

NoTable == [grouping |-> 0, rows |-> <<>>]
NoSpans == [computed |-> FALSE, of |-> <<>>]

\* The row with index i (from 0).
Row(t, i) == t.rows[i + 1]

\* Mutant of is_group_start: the first row starts no group.
RECURSIVE is_group_start_not_first(_, _, _)
is_group_start_not_first(t, i, k) ==
    /\ i # 0
    /\ \/ \E c \in 0..k : Row(t, i)[Columns[c + 1]] # Row(t, i - 1)[Columns[c + 1]]
       \/ k > 0 /\ is_group_start_not_first(t, i, k - 1)

\* A row starts a new group in the grouping column at ordinal k if it is the
\* first row, or any of columns 0..k differs from the previous row's, or the
\* enclosing group (column k-1) starts at this row.
RECURSIVE is_group_start(_, _, _)
is_group_start(t, i, k) ==
    \/ i = 0
    \/ \E c \in 0..k : Row(t, i)[Columns[c + 1]] # Row(t, i - 1)[Columns[c + 1]]
    \/ k > 0 /\ is_group_start(t, i, k - 1)

\* The rows from i on that remain in the group: up to the next group start.
RECURSIVE Remaining(_, _, _)
Remaining(t, i, k) ==
    IF i >= Len(t.rows) \/ is_group_start(t, i, k) THEN 0
    ELSE 1 + Remaining(t, i + 1, k)

\* The rows of the group a group-starting row starts, itself included; 0
\* for a row that starts no group.
span_length(t, i, k) ==
    IF is_group_start(t, i, k) THEN 1 + Remaining(t, i + 1, k) ELSE 0

\* compute(table): (row_index, grouping column ordinal) -> GroupSpan.
compute(t) ==
    [x \in (0..(Len(t.rows) - 1)) \X (0..(t.grouping - 1)) |->
        [is_group_start |-> is_group_start(t, x[1], x[2]),
         span_length |-> span_length(t, x[1], x[2])]]

\* The values of the cells of a column; None is null.
CellValues(c) ==
    CASE c = "dept" -> {None, Str("A"), Str("B")}
      [] c = "team" -> {Str("x"), Str("y")}
      [] OTHER -> {Str("n"), Str("m")}

Rows ==
    {[c \in {"dept", "team", "name"} |->
        CASE c = "dept" -> d [] c = "team" -> m [] OTHER -> n] :
            d \in CellValues("dept"), m \in CellValues("team"), n \in CellValues("name")}

(***************************************************************************)
(* Inputs.  Every attribute and every keyword argument has a falsy and a   *)
(* truthy value besides None; the values given to a call differ from the   *)
(* values stored on the sender, so that a message shows where each of its  *)
(* values came from.                                                       *)
(***************************************************************************)
ArgText(n) ==
    CASE n = "subject" -> "Some email"
      [] n = "sender" -> "me@example.com"
      [] n = "text" -> "Hi {{ name }}"
      [] n = "html" -> "<h1>Hi {{ name }}</h1>"
      [] n = "html_template" -> "call.html"
      [] OTHER -> "call.txt"

\* Values of keyword argument n of a call on a sender of class c.  A
\* DistrSender takes the name of a distribution where an EmailSender takes
\* the addresses.
ArgValues(c, n) ==
    IF n \in StrDefaults THEN {Str(""), Str(ArgText(n))}
    ELSE IF c = "DistrSender" THEN {Str(""), Str(IF n = "cc" THEN "group2" ELSE "group1")}
    ELSE {List(<<>>), List(<<"a@example.com", "b@example.com">>)}

AttrText(n) ==
    CASE n = "subject" -> "Default subject"
      [] n = "sender" -> "default@example.com"
      [] n = "text" -> "Default text"
      [] n = "html" -> "<p>Default</p>"
      [] n = "html_template" -> "default.html"
      [] n = "text_template" -> "default.txt"
      [] n = "user_name" -> "user@example.com"
      [] n = "password" -> "<PASSWORD>"
      [] n = "default_html_theme" -> "custom.html"
      [] n = "default_text_theme" -> "custom.txt"
      [] OTHER -> "my/templates"

\* Values an attribute of the sender can be set to.
AttrValues(n) ==
    CASE n \in StrDefaults -> {None, Str(""), Str(AttrText(n))}
      [] n \in ListDefaults -> {None, List(<<>>), List(<<"default@example.com">>)}
      [] n \in Credentials -> {None, Str(AttrText(n))}
      [] n \in Themes -> {None, Str(AttrText(n))}
      [] n = "use_starttls" -> {Bool(TRUE), Bool(FALSE)}
      [] OTHER -> {Str(AttrText(n))}

\* The values of body_params and attachments that are not None.
BodyParams ==
    <<Dict(EmptyDict), Dict([k \in {"name"} |-> Str("you")]),
      Dict([k \in {"error"} |-> Str("my error")])>>

Attachments == <<Dict(EmptyDict), Dict([k \in {"data.csv"} |-> Str("a,b")])>>

\* The keyword arguments given to one call come from one of these families
\* (the headers, the bodies, the bodies' extras), at most MaxArgs of them.
Families ==
    {{"subject", "sender", "receivers", "cc", "bcc"},
     {"subject", "text", "html", "text_template", "html_template"},
     {"subject", "sender", "text", "html", "body_params", "attachments"}}

GivenSets == {G \in UNION {SUBSET F : F \in Families} : Cardinality(G) <= MaxArgs}

\* A call's keyword arguments: for each argument given, which of its values
\* (1: the falsy one, 2: the truthy one, 3: body_params with an "error" key).
Kwargs ==
    UNION {{k \in [G -> 1..3] : \A n \in G : k[n] = 3 => n = "body_params"} :
            G \in GivenSets}

\* The keyword arguments send is called with.
SendNames == {"subject", "text", "html_template", "attachments"}
SendKwargs == {k \in Kwargs : DOMAIN k \subseteq SendNames}

ArgsOf(c, k) ==
    [n \in Defaults |->
        IF n \notin DOMAIN k THEN None
        ELSE IF k[n] = 1 THEN CHOOSE x \in ArgValues(c, n) : ~Truthy(x)
        ELSE CHOOSE x \in ArgValues(c, n) : Truthy(x)]

BodyParamsOf(k) ==
    IF "body_params" \in DOMAIN k THEN BodyParams[k["body_params"]] ELSE NoDict

AttachmentsOf(k) ==
    IF "attachments" \in DOMAIN k THEN Attachments[k["attachments"]] ELSE NoDict

\* The collaborator calls of a call that meets no fault: the calls a fault
\* can be put on.
FaultsOf(loc, S) == {loc.calls[i] : i \in DOMAIN loc.calls} \cap S

(***************************************************************************)
(* Sequential use: one thread uses the sender, so attributes are set       *)
(* between whole calls and a call runs to its end in one step.  The calls  *)
(* of several threads, a line at a time, are in SpecTwo and SpecRace.      *)
(***************************************************************************)
Init ==
    /\ cls \in {"EmailSender", "DistrSender"}
    /\ email = EmailSenderInit(None, None, Bool(TRUE))
    /\ assigned = 0
    /\ ret = Idle
    /\ th = <<>>
    /\ writes = 0
    /\ start = <<>>
    /\ table = NoTable /\ spans = NoSpans

\* email.<n> = x (or the same value given to the constructor).
Assign ==
    /\ ret.pc = "idle"
    /\ assigned < MaxAssign
    /\ \E n \in Defaults \cup Credentials \cup {"use_starttls"} :
         \E x \in AttrValues(n) :
            /\ x # email[n]
            /\ email' = [email EXCEPT ![n] = x]
    /\ assigned' = assigned + 1
    /\ UNCHANGED <<cls, ret, th, writes, start, table, spans>>

\* msg = email.get_message(**kwargs)
GetMessage ==
    /\ ret.pc = "idle"
    /\ \E k \in Kwargs :
        LET call == Call("get_message", ArgsOf(cls, k), BodyParamsOf(k), AttachmentsOf(k), "", "")
            clean == Run(cls, email, call)
        IN \E fault \in {""} \cup FaultsOf(clean.loc, Faults) :
              LET r == IF fault = "" THEN clean
                       ELSE Run(cls, email, [call EXCEPT !.fault = fault])
              IN /\ email' = r.self
                 /\ ret' = r.loc
                 /\ UNCHANGED <<cls, assigned, th, writes, start, table, spans>>

\* The call is over: its result (ret) has been handed to the caller.
Return ==
    /\ Over(ret) /\ ret.pc # "idle"
    /\ ret' = Idle
    /\ UNCHANGED <<cls, email, assigned, th, writes, start, table, spans>>

Next == Assign \/ GetMessage \/ Return

Spec == Init /\ [][Next]_vars

(***************************************************************************)
(* send.  The call waits on the network in connect and send_message, and   *)
(* it reads the sender before and after: user_name at line 288 and again   *)
(* at 379, password at 380, use_starttls at 383.  So a send runs a line at *)
(* a time, and the sender's attributes can be set between any two lines.   *)
(* start keeps the sender and the number of writes at the call.            *)
(***************************************************************************)
SendAttrs == {"subject", "text", "user_name", "password", "use_starttls"}

InitSend ==
    /\ cls = "EmailSender"
    /\ email = EmailSenderInit(None, None, Bool(TRUE))
    /\ assigned = 0 /\ writes = 0 /\ ret = Idle /\ th = <<>>
    /\ start = [self |-> email, writes |-> 0]
    /\ table = NoTable /\ spans = NoSpans

\* email.send(**kwargs) is entered.  Any one of the collaborator calls the
\* call may come to make can be the one that raises: which calls it makes
\* depends on the attributes as they are when its lines run.
Send ==
    /\ ret.pc = "idle"
    /\ \E k \in SendKwargs :
        LET call == Call("send", ArgsOf(cls, k), BodyParamsOf(k), AttachmentsOf(k), "", "")
        IN \E fault \in {""} \cup Faults \cup SmtpFaults :
              ret' = IF fault \in Faults THEN [call EXCEPT !.fault = fault]
                     ELSE [call EXCEPT !.smtp_fault = fault]
    /\ start' = [self |-> email, writes |-> writes]
    /\ UNCHANGED <<cls, email, assigned, th, writes, table, spans>>

\* The next line of the call.
SendLine ==
    /\ ~Over(ret)
    /\ LET r == Step(cls, email, ret)
       IN email' = r.self /\ ret' = r.loc
    /\ UNCHANGED <<cls, assigned, th, writes, start, table, spans>>

\* email.<n> = x, before a call or while it runs.
Set ==
    /\ writes < MaxWrites
    /\ \E n \in SendAttrs :
         \E x \in AttrValues(n) :
            /\ x # email[n]
            /\ email' = [email EXCEPT ![n] = x]
    /\ writes' = writes + 1
    /\ UNCHANGED <<cls, assigned, ret, th, start, table, spans>>

NextSend == Send \/ SendLine \/ Set \/ Return

SpecSend == InitSend /\ [][NextSend]_vars


(***************************************************************************)
(* Concurrent use: the calls of several threads on one sender, a step at   *)
(* a time, and attribute writes that race with a running call.             *)
(***************************************************************************)
\* The keyword arguments of the calls that run concurrently: truthy values
\* of these arguments.
ConcNames == {"subject", "text", "html", "text_template", "body_params"}
ConcKwargs == {k \in Kwargs : DOMAIN k \subseteq ConcNames /\ \A n \in DOMAIN k : k[n] = 2}

\* The senders the concurrent calls start on: as constructed, or with a
\* default subject, or with a default text.
StartSenders ==
    LET new == EmailSenderInit(None, None, Bool(TRUE))
    IN {new} \cup {[new EXCEPT ![n] = Str(AttrText(n))] : n \in {"subject", "text"}}

\* One step of thread t's call.
ThreadStep(t) ==
    /\ ~Over(th[t])
    /\ LET r == Step(cls, email, th[t])
       IN /\ email' = r.self
          /\ th' = [th EXCEPT ![t] = r.loc]
    /\ UNCHANGED <<cls, assigned, ret, writes, start, table, spans>>

\* Another thread sets an attribute of the sender (a default, a credential,
\* use_starttls, a theme, or, as set_template_paths does, a template
\* environment) while a call runs.
Write ==
    /\ writes < MaxWrites
    /\ \E t \in DOMAIN th : ~Over(th[t])
    /\ \E n \in Attributes :
         \E x \in AttrValues(n) :
            /\ x # email[n]
            /\ email' = [email EXCEPT ![n] = x]
    /\ writes' = writes + 1
    /\ UNCHANGED <<cls, assigned, ret, th, start, table, spans>>

\* Two threads call get_message on the same sender; nothing else touches it.
InitTwo ==
    /\ cls = "EmailSender"
    /\ email \in StartSenders
    /\ assigned = 0 /\ writes = 0 /\ ret = Idle
    /\ start = email
    /\ table = NoTable /\ spans = NoSpans
    /\ \E k1, k2 \in ConcKwargs :
          th = [t \in {1, 2} |->
                  LET k == IF t = 1 THEN k1 ELSE k2
                  IN Call("get_message", ArgsOf(cls, k), BodyParamsOf(k), AttachmentsOf(k), "", "")]

NextTwo == \E t \in {1, 2} : ThreadStep(t)

SpecTwo == InitTwo /\ [][NextTwo]_vars

\* One thread calls get_message or send, a line at a time, while another
\* sets attributes: a write can land between any two lines of the call,
\* those of connect and send_message included.
RaceNames == {"subject", "text", "html_template"}
RaceKwargs == {k \in Kwargs : DOMAIN k \subseteq RaceNames /\ \A n \in DOMAIN k : k[n] = 2}

InitRace ==
    /\ cls = "EmailSender"
    /\ email = EmailSenderInit(None, None, Bool(TRUE))
    /\ assigned = 0 /\ writes = 0 /\ ret = Idle
    /\ start = email
    /\ table = NoTable /\ spans = NoSpans
    /\ \E k \in RaceKwargs, op \in {"get_message", "send"} :
          th = [t \in {1} |->
                  Call(op, ArgsOf(cls, k), BodyParamsOf(k), AttachmentsOf(k), "", "")]

NextRace == ThreadStep(1) \/ Write

SpecRace == InitRace /\ [][NextRace]_vars

\* The call of thread state loc as it was made, and its result when it runs
\* alone on a sender with the attributes self.
CallOf(loc) ==
    Call(loc.op, loc.a, loc.given.body_params, loc.given.attachments, loc.fault, loc.smtp_fault)

Alone(self, loc) == Run(cls, self, CallOf(loc)).loc

(***************************************************************************)
(* Table rendering: a table is built row by row, and its group spans are   *)
(* computed from it.  The grouping columns are a strict prefix of the      *)
(* columns.                                                                *)
(***************************************************************************)
InitSpan ==
    /\ cls = "EmailSender"
    /\ email = EmailSenderInit(None, None, Bool(TRUE))
    /\ assigned = 0 /\ writes = 0 /\ ret = Idle /\ th = <<>> /\ start = <<>>
    /\ \E g \in 0..(Len(Columns) - 1) : table = [grouping |-> g, rows |-> <<>>]
    /\ spans = NoSpans

AddRow ==
    /\ Len(table.rows) < MaxRows
    /\ \E r \in Rows : table' = [table EXCEPT !.rows = Append(@, r)]
    /\ spans' = NoSpans
    /\ UNCHANGED <<cls, email, assigned, ret, th, writes, start>>

Compute ==
    /\ ~spans.computed
    /\ spans' = [computed |-> TRUE, of |-> compute(table)]
    /\ UNCHANGED <<cls, email, assigned, ret, th, writes, start, table>>

NextSpan == AddRow \/ Compute

SpecSpan == InitSpan /\ [][NextSpan]_vars

(***************************************************************************)
(* Vocabulary of the properties.                                           *)
(***************************************************************************)
TransportOps == {"SMTP", "starttls", "login", "send_message", "quit"}
ComposeErrors == {"ValueError", "TemplateNotFound", "RenderError", "AttachmentError"}

Called(loc, name) == \E i \in DOMAIN loc.calls : loc.calls[i] = name

\* The transport operations of a call, in the order they were made.
TransportLog(loc) == SelectSeq(loc.calls, LAMBDA c : c \in TransportOps)

\* A whole call has been made, and ret is its last local state.
Made == ret.pc \in {"done", "raise"}

\* get_message returned a message (to its caller, or to send).
Composed(loc) == loc.pc \in {"done", "raise"} /\ loc.exc \notin ComposeErrors

IsPrefix(s, t) == Len(s) <= Len(t) /\ \A i \in DOMAIN s : s[i] = t[i]

Kinds(msg) == [i \in DOMAIN msg.parts |-> msg.parts[i].kind]

HeaderNames(msg) == [i \in DOMAIN msg.headers |-> msg.headers[i][1]]

\* What "x or default" comes to, written out: the argument when it is
\* neither None nor empty, else the default.
Resolved(x, default) ==
    IF x = None \/ x = Str("") \/ x = List(<<>>) THEN default ELSE x

(***************************************************************************)
(* C1: in send, composition is over before the transport is touched: when  *)
(* get_message raises (no subject, a template lookup, a body attach or the *)
(* attachments fail), the SMTP class is not instantiated and none of       *)
(* starttls, login, send_message, quit is called; and in every send call   *)
(* no composition step follows a transport operation.                      *)
(***************************************************************************)
C1_ComposeBeforeTransport ==
    ret.op = "send" =>
        /\ ret.exc \in ComposeErrors => TransportLog(ret) = <<>> /\ ret.delivered = NoMsg
        /\ \A i, j \in DOMAIN ret.calls :
              (i < j /\ ret.calls[i] \in TransportOps) => ret.calls[j] \in TransportOps

\* A send given no text: the default text was set while the call ran, and
\* attaching the text body failed.
C1_Witness ==
    /\ Made /\ ret.op = "send" /\ ret.exc = "RenderError"
    /\ ret.a["text"] = None /\ start.self["text"] = None
    /\ Called(ret, "TextBody.attach")
    /\ TransportLog(ret) = <<>>

(***************************************************************************)
(* C2: get_message (and send) raises ValueError exactly when the per-call  *)
(* subject and the default subject resolve to None, that is when the       *)
(* argument is None or empty and the sender has no default subject; the    *)
(* failure comes before the message is created and before anything is      *)
(* attached or any collaborator is called.                                 *)
(***************************************************************************)
C2_NoSubjectRaises ==
    Made =>
        LET nosubject == ret.a["subject"] \in {None, Str("")} /\ email["subject"] = None
        IN /\ nosubject =>
                /\ ret.pc = "raise" /\ ret.exc = "ValueError"
                /\ ret.msg = NoMsg /\ ret.calls = <<>>
           /\ ret.exc = "ValueError" => nosubject

\* An empty subject and a text were given, and the sender has no default.
C2_Witness ==
    /\ Made /\ ret.exc = "ValueError"
    /\ ret.a["subject"] = Str("") /\ Truthy(ret.a["text"])
    /\ ret.msg = NoMsg

(***************************************************************************)
(* C3: delivery is never retried and its errors surface unchanged: the     *)
(* transport operations of a send call are a prefix of SMTP(...), starttls *)
(* (if use_starttls), login (if user_name or password is not None),        *)
(* send_message(msg), quit, each made once and in that order; the sequence *)
(* is complete when no operation raises, and the operation that raises is  *)
(* the last one made, its exception ending the call.                       *)
(***************************************************************************)
ExpectedTransport(starttls, user, password) ==
    <<"SMTP">>
    \o (IF starttls THEN <<"starttls">> ELSE <<>>)
    \o (IF user # None \/ password # None THEN <<"login">> ELSE <<>>)
    \o <<"send_message", "quit">>

\* No attribute was set since the call was entered.
Undisturbed == start.writes = writes

C3_TransportOnce ==
    ret.op = "send" =>
        LET ops == TransportLog(ret)
        IN /\ \E st \in BOOLEAN :
                LET exp == ExpectedTransport(st, ret.user, ret.password)
                IN /\ IsPrefix(ops, exp)
                   /\ (ret.pc = "done") => ops = exp
           /\ (Undisturbed /\ Made /\ Composed(ret)) =>
                LET exp == ExpectedTransport(email["use_starttls"] = Bool(TRUE),
                                             email["user_name"], email["password"])
                IN /\ IsPrefix(ops, exp)
                   /\ ret.exc = "" => ops = exp
           /\ (Made /\ Composed(ret)) =>
                /\ ret.exc = "" => ret.pc = "done" /\ ret.delivered = ret.msg
                /\ ret.exc # "" =>
                     /\ ret.exc = "SMTPException" /\ ret.pc = "raise"
                     /\ ops # <<>> /\ ops[Len(ops)] = ret.smtp_fault
           /\ Called(ret, "send_message") => ret.delivered = ret.msg

\* login raised: the connection was made and secured, nothing was sent.
C3_Witness ==
    /\ Made /\ ret.op = "send" /\ ret.exc = "SMTPException"
    /\ TransportLog(ret) = <<"SMTP", "starttls", "login">>
    /\ ret.delivered = NoMsg

(***************************************************************************)
(* C4 as stated: every value other than None given to a call is the one    *)
(* used, and the default is used only when the argument is None.           *)
(***************************************************************************)
DefaultOf(self, n) ==
    IF n = "sender" THEN Resolved(self["sender"], self["user_name"]) ELSE self[n]

C4_Original_AnyValueButNone ==
    (Made /\ cls = "EmailSender") =>
        \A n \in Defaults :
            ret.v[n] = IF ret.a[n] # None THEN ret.a[n] ELSE DefaultOf(email, n)

(***************************************************************************)
(* C4, amended: a truthy value given to a call is the one used to compose  *)
(* the message; an argument that is None or empty ("" or []) falls back to *)
(* the instance default, for sender to self.sender and, when that is None  *)
(* or empty, to self.user_name.  For receivers, cc and bcc this is the     *)
(* fallback of EmailSender's own hooks.  The resolved values are the ones  *)
(* in the message: its from and subject headers and its bodies.            *)
(***************************************************************************)
C4_TruthyOverridesDefault ==
    Made =>
        /\ \A n \in Defaults :
              (cls = "EmailSender" \/ n \in StrDefaults) =>
                  ret.v[n] = Resolved(ret.a[n], DefaultOf(email, n))
        /\ Called(ret, "_create_body") =>
              /\ ret.msg.headers[1] = <<"from", HeaderItems("from", ret.v["sender"])>>
              /\ ret.msg.headers[2] = <<"subject", HeaderItems("subject", ret.v["subject"])>>
        /\ \A i \in DOMAIN ret.msg.parts :
              /\ ret.msg.parts[i].kind = "text" => ret.msg.parts[i].body = ret.v["text"]
              /\ ret.msg.parts[i].kind = "html" => ret.msg.parts[i].body = ret.v["html"]

\* An empty text was given and the default text went into the message.
C4_Witness ==
    /\ Made /\ ret.exc = ""
    /\ ret.a["text"] = Str("") /\ Truthy(email["text"])
    /\ Kinds(ret.msg) = <<"text">> /\ ret.msg.parts[1].body = email["text"]


(***************************************************************************)
(* C7: the parts of a composed message are those whose content is          *)
(* supplied, in the order text, HTML, attachments: the text body is        *)
(* attached iff text or text_template resolves to a value (not None), the  *)
(* HTML body iff html or html_template does, the attachments iff the       *)
(* mapping is non-empty.  So text precedes HTML, and with only text        *)
(* supplied there is no HTML part.                                         *)
(***************************************************************************)
Supplied(n) == Resolved(ret.a[n], email[n]) # None

C7_PartsInOrder ==
    (Made /\ ret.exc \notin ComposeErrors) =>
        Kinds(ret.msg) =
            (IF Supplied("text") \/ Supplied("text_template") THEN <<"text">> ELSE <<>>)
            \o (IF Supplied("html") \/ Supplied("html_template") THEN <<"html">> ELSE <<>>)
            \o (IF ~ret.attachments.none /\ DOMAIN ret.attachments.d # {}
                THEN <<"attachments">> ELSE <<>>)

\* Both bodies: the text given by a template name, the HTML as a string.
C7_Witness ==
    /\ Made /\ ret.exc = ""
    /\ ret.v["text"] = None /\ ret.v["text_template"] # None
    /\ Kinds(ret.msg) = <<"text", "html">>

(***************************************************************************)
(* C8: composing fails with EmptyMessageError when no text, HTML or        *)
(* attachment content is supplied, per call or by default, even with valid *)
(* headers: no such empty message is returned.                             *)
(***************************************************************************)
NoContent ==
    /\ ~Supplied("text") /\ ~Supplied("text_template")
    /\ ~Supplied("html") /\ ~Supplied("html_template")
    /\ (ret.attachments.none \/ DOMAIN ret.attachments.d = {})

C8_EmptyMessageError ==
    (Made /\ Supplied("subject") /\ NoContent) =>
        ret.pc = "raise" /\ ret.exc = "EmptyMessageError"

(***************************************************************************)
(* C9: the recipient headers are what the get_receivers, get_cc and        *)
(* get_bcc hooks return for the per-call arguments, also when a subclass   *)
(* overrides the hooks: to, cc and bcc are set to the hook's result when   *)
(* it is non-empty and absent when the hook returns nothing; from and      *)
(* subject are always set.                                                 *)
(***************************************************************************)
HeaderIf(name, x) == IF x = None \/ x = List(<<>>) \/ x = Str("") THEN <<>> ELSE <<<<name, x.v>>>>

C9_RecipientHeaders ==
    (Made /\ Called(ret, "_create_body")) =>
        /\ HeaderNames(ret.msg)[1] = "from" /\ HeaderNames(ret.msg)[2] = "subject"
        /\ SubSeq(ret.msg.headers, 3, Len(ret.msg.headers)) =
              HeaderIf("to", get_receivers(cls, email, ret.a["receivers"]))
              \o HeaderIf("cc", get_cc(cls, email, ret.a["cc"]))
              \o HeaderIf("bcc", get_bcc(cls, email, ret.a["bcc"]))

\* test_distributions: a distribution's name became its addresses.
C9_Witness ==
    /\ Made /\ cls = "DistrSender" /\ ret.exc = ""
    /\ ret.a["receivers"] = Str("group1")
    /\ HeaderNames(ret.msg) = <<"from", "subject", "to">>
    /\ ret.msg.headers[3] = <<"to", <<"me@example.com", "you@example.com">>>>

(***************************************************************************)
(* C10 as stated: every body render call receives node, user, now, sender  *)
(* and error for every value of body_params, the error marker of the HTML  *)
(* body being the HTML-inline one and that of the text body the text one.  *)
(***************************************************************************)
Implicit == {"node", "user", "now", "sender", "error"}

Marker(kind) == Error(IF kind = "html" THEN "html-inline" ELSE "text")

Bodies(msg) == {i \in DOMAIN msg.parts : msg.parts[i].kind \in {"text", "html"}}

C10_Original_MarkerPerBody ==
    Made =>
        \A i \in Bodies(ret.msg) :
            /\ Implicit \subseteq DOMAIN ret.msg.parts[i].params
            /\ ret.msg.parts[i].params["error"] = Marker(ret.msg.parts[i].kind)

(***************************************************************************)
(* C10, amended: every body render call receives the keys node, user, now, *)
(* sender and error, for every value of body_params; body_params is        *)
(* applied last, so a key it shares with the implicit ones (error, say)    *)
(* carries the value of body_params; otherwise sender is the resolved      *)
(* sender and error is the HTML-inline marker for the HTML body and the    *)
(* text marker for the text body.                                          *)
(***************************************************************************)
C10_ImplicitParams ==
    Made =>
        \A i \in Bodies(ret.msg) :
            LET params == ret.msg.parts[i].params
                extra == ret.body_params.d
            IN /\ DOMAIN params = Implicit \cup DOMAIN extra
               /\ \A k \in DOMAIN extra : params[k] = extra[k]
               /\ "error" \notin DOMAIN extra =>
                     params["error"] = Marker(ret.msg.parts[i].kind)
               /\ "sender" \notin DOMAIN extra =>
                     params["sender"] = EmailAddress(ret.v["sender"])

\* An HTML body rendered with an error of the caller's.
C10_Witness ==
    /\ Made /\ ret.exc = ""
    /\ \E i \in Bodies(ret.msg) :
          /\ ret.msg.parts[i].kind = "html"
          /\ ret.msg.parts[i].params["error"] = Str("my error")


(***************************************************************************)
(* C5: the defaults a compose call uses are read once at the start of      *)
(* get_message, so a change another thread makes to a default after the    *)
(* call has started does not change the message the call produces: the     *)
(* call ends as it would have ended alone on the sender as it was when     *)
(* the call started.                                                       *)
(***************************************************************************)
C5_SnapshotAtStart ==
    \A t \in DOMAIN th :
        (Over(th[t]) /\ th[t].op = "get_message") => th[t] = Alone(start, th[t])

\* In send too the attributes are read a line at a time: user_name was set
\* after line 288 and before line 379, so the message is from "None" and
\* the call logs in as the new user.
SendRaceReached ==
    /\ DOMAIN th = {1} /\ th[1].op = "send" /\ th[1].pc = "done"
    /\ th[1].msg.headers[1] = <<"from", <<"None">>>>
    /\ Called(th[1], "login") /\ th[1].user = Str("user@example.com")

(***************************************************************************)
(* C6: concurrent composition calls do not interfere: get_message writes   *)
(* no attribute of the sender and not the caller's body_params, and builds *)
(* its own message, so in every interleaving of two get_message calls on   *)
(* one sender whose defaults do not change, each call ends as it would     *)
(* have ended alone.                                                       *)
(***************************************************************************)
C6_CallsDoNotInterfere ==
    /\ email = start
    /\ \A t \in DOMAIN th :
          /\ th[t].body_params = th[t].given.body_params
          /\ Over(th[t]) => th[t] = Alone(start, th[t])

\* Two calls with different arguments are over, with different messages.
C6_Witness ==
    /\ DOMAIN th = {1, 2}
    /\ th[1].pc = "done" /\ th[2].pc = "done"
    /\ th[1].a # th[2].a
    /\ Kinds(th[1].msg) = <<"text">> /\ Kinds(th[2].msg) = <<"html">>

(***************************************************************************)
(* C11: for every table and every grouping column, the group spans         *)
(* partition the rows: the sum of span_length over the group-start rows of *)
(* the column is the number of rows, and a row that starts no group has    *)
(* span_length 0.                                                          *)
(***************************************************************************)
RECURSIVE SumOfSpans(_, _, _)
SumOfSpans(sp, k, n) ==
    IF n = 0 THEN 0
    ELSE SumOfSpans(sp, k, n - 1)
         + (IF sp[<<n - 1, k>>].is_group_start THEN sp[<<n - 1, k>>].span_length ELSE 0)

C11_SpansPartitionRows ==
    spans.computed =>
        \A k \in 0..(table.grouping - 1) :
            /\ SumOfSpans(spans.of, k, Len(table.rows)) = Len(table.rows)
            /\ \A i \in 0..(Len(table.rows) - 1) :
                  ~spans.of[<<i, k>>].is_group_start => spans.of[<<i, k>>].span_length = 0

\* The spec's scenario: dept A, A, B gives spans 2, 0, 1.
C11_Witness ==
    /\ spans.computed /\ table.grouping >= 1 /\ Len(table.rows) = 3
    /\ table.rows[1]["dept"] = Str("A") /\ table.rows[2]["dept"] = Str("A")
    /\ table.rows[3]["dept"] = Str("B")
    /\ spans.of[<<0, 0>>].span_length = 2
    /\ spans.of[<<1, 0>>].span_length = 0
    /\ spans.of[<<2, 0>>].span_length = 1

====
